---- MODULE Spec2Model ----
(***************************************************************************)
(* Model of lib/definitions/aggregate.js: the command pipeline of an       *)
(* aggregate (handle), the apply capability (applyHelper), replay (apply)  *)
(* and history load (loadFromHistory), acting on one AggregateModel.       *)
(*                                                                         *)
(* JavaScript values that the code tests for truthiness or type are kept   *)
(* as tagged records, so that !!v, v || 0, _.isString and _.isNumber are   *)
(* computed as the code computes them.                                     *)
(***************************************************************************)
EXTENDS Integers, Sequences, FiniteSets, TLC

\* ------------------------------------------------------------------ bounds
MaxApplies == 2      \* apply calls issued on the container by its command handlers
MaxHandles == 2      \* handle calls issued on the container
MaxLoads == 2        \* loadFromHistory calls issued on the container
MaxPre == 2          \* registered aggregate-level preconditions
MaxRules == 2        \* registered business rules
MaxDefs == 3         \* definitions of each kind offered for registration
MaxAdds == 4         \* addBusinessRule and addPreCondition calls that bootstrap issues

\* ------------------------------------------------------- JavaScript values
Undef == [t |-> "undefined"]

Num(n) == [t |-> "number", n |-> n]

Str(s) == [t |-> "string", s |-> s]

\* the string produced by the n-th call of the id generator
GenId(n) == [t |-> "string", s |-> "generated", n |-> n]

\* !!v
Truthy(v) ==
  CASE v.t = "undefined" -> FALSE
    [] v.t = "number" -> v.n # 0
    [] v.t = "string" -> v.s # ""

\* v || 0
OrZero(v) == IF Truthy(v) THEN v ELSE Num(0)

\* ------------------------------------------------------------------ errors
NoErr == [kind |-> "null", idx |-> 0]

Err(kind, idx) == [kind |-> kind, idx |-> idx]

\* --------------------------------------------------------------- registries
\* this.commands: the Command definitions registered at bootstrap
Commands == {[name |-> "cmd", version |-> 0]}

\* this.events: the Event definitions registered at bootstrap
Events ==
  {[name |-> "a", version |-> 0], [name |-> "b", version |-> 0],
   [name |-> "b", version |-> 1]}

\* this.version of the aggregate definition
AggregateVersion == 1

\* this.snapshotConversions: the snapshot versions that have a conversion
SnapshotConversions == {0}

\* aggregateModel.id
ModelId == "agg1"

\* the value at definitions.command.id of every command issued
CmdId == "c1"

\* getCommand(name, version): "invalidName" and "invalidVersion" are the two
\* exceptions it raises, "undefined" is _.find finding nothing
GetCommand(name, version) ==
  IF ~Truthy(name) \/ name.t # "string" THEN "invalidName"
  ELSE IF OrZero(version).t # "number" THEN "invalidVersion"
  ELSE IF \E c \in Commands : c.name = name.s /\ c.version = OrZero(version).n
       THEN "found" ELSE "undefined"

\* getEvent(name, version), with the same three outcomes
GetEvent(name, version) ==
  IF ~Truthy(name) \/ name.t # "string" THEN "invalidName"
  ELSE IF OrZero(version).t # "number" THEN "invalidVersion"
  ELSE IF \E e \in Events : e.name = name.s /\ e.version = OrZero(version).n
       THEN "found" ELSE "undefined"

\* ------------------------------------------------------------------- state
VARIABLES
  cfg,            \* definitions.* and options of the aggregate, fixed at construction
  preConditions,  \* this.preConditions
  businessRules,  \* this.businessRules
  added,          \* history: the definitions passed to addPreCondition and addBusinessRule
  fields,         \* aggregateModel: the field bag
  revision,       \* aggregateModel: the revision counter
  uncommitted,    \* aggregateModel: the uncommitted-event buffer
  gate,           \* aggregateModel.set: "open" (prototype set) or "closed" (throwing set)
  pc,             \* position of the handle call in progress
  cmd,            \* the command of the handle call in progress
  previousModel,  \* the previous-model copy taken by handle
  preIdx,         \* index of the aggregate precondition being checked
  ruleIdx,        \* index of the business rule being checked
  pending,        \* indexes of uncommitted events with an id generation outstanding
  eachDone,       \* async.each of handle has already called its final callback
  genCount,       \* number of ids the id generator has produced
  cbCount,        \* number of invocations of handle's callback in this call
  cbErr,          \* the error handle passed to its callback
  thrown,         \* the exception raised out of the operation, "none" if none
  handlerRan,     \* command.handle has been invoked in this call
  applies,        \* number of apply calls of this handler invocation
  emitted,        \* history: number of apply calls issued on the container
  pre,            \* history: the container as it was when handle was called
  applyLog,       \* history: the events of this call in the order apply was called
  applied,        \* history: for each apply of this call, its argument and the Event definition it resolved
  reported,       \* history: the failure reported by a check or the id generator
  handles,        \* history: number of handle calls issued
  loads,          \* history: number of loadFromHistory calls issued
  loadIn,         \* history: the arguments of the last loadFromHistory call
  loadRes         \* the value returned by the last loadFromHistory call (FALSE if it threw)

vars == <<cfg, preConditions, businessRules, added, fields, revision, uncommitted, gate, pc, cmd, previousModel,
          preIdx, ruleIdx, pending, eachDone, genCount, cbCount, cbErr,
          thrown, handlerRan, applies, emitted, pre, applyLog, applied, reported,
          handles, loads, loadIn, loadRes>>

modelVars == <<fields, revision, uncommitted, gate>>

registryVars == <<preConditions, businessRules, added>>

loadVars == <<emitted, loads, loadIn, loadRes>>

\* the configurations an aggregate is constructed with
Configs ==
  [cmdVersion : BOOLEAN,          \* definitions.command.version is configured
   evtVersion : BOOLEAN,          \* definitions.event.version is configured
   snapshotThreshold : {0, 2},    \* options.snapshotThreshold, 0 when unset
   snapshotThresholdMs : {0, 5},  \* options.snapshotThresholdMs, 0 when unset
   revInBag : BOOLEAN,            \* the revision counter lives inside the field bag
   nPre : 0..MaxPre,              \* preconditions that bootstrap registers
   nRules : 0..MaxRules]          \* business rules that bootstrap registers

\* the pipeline configurations: under the default snapshot options, every
\* combination with no or all preconditions and no or all business rules
PipelineConfigs ==
  {c \in Configs : /\ c.cmdVersion = c.evtVersion
                   /\ c.snapshotThreshold = 0
                   /\ c.snapshotThresholdMs = 0
                   /\ c.nPre \in {0, MaxPre}
                   /\ c.nRules \in {0, MaxRules}}

\* the snapshot configurations: every combination of snapshot options under
\* the largest pipeline configuration
SnapshotConfigs ==
  {c \in Configs : /\ c.cmdVersion /\ c.evtVersion /\ c.revInBag
                   /\ c.nPre = MaxPre
                   /\ c.nRules = MaxRules}

\* modelInitValues of the aggregate
InitFields == [count |-> 0, last |-> 0]

NoPrevious == [fields |-> InitFields, revision |-> 0]

NoPre == [fields |-> InitFields, revision |-> 0, uncommitted |-> <<>>, gate |-> "open"]

NoCmd == [name |-> Undef, version |-> Undef]

NoLoad ==
  [snapshot |-> [given |-> FALSE, version |-> 0, revision |-> 0, data |-> InitFields],
   events |-> <<>>, loadingTime |-> 0]

\* a freshly created container (create) and no operation in progress
Fresh ==
  /\ fields = InitFields
  /\ revision = 0
  /\ uncommitted = <<>>
  /\ gate = "open"
  /\ pc = "idle"
  /\ cmd = NoCmd
  /\ previousModel = NoPrevious
  /\ preIdx = 0
  /\ ruleIdx = 0
  /\ pending = {}
  /\ eachDone = FALSE
  /\ genCount = 0
  /\ cbCount = 0
  /\ cbErr = NoErr
  /\ thrown = "none"
  /\ handlerRan = FALSE
  /\ applies = 0
  /\ emitted = 0
  /\ pre = NoPre
  /\ applyLog = <<>>
  /\ applied = <<>>
  /\ reported = NoErr
  /\ handles = 0
  /\ loads = 0
  /\ loadIn = NoLoad
  /\ loadRes = FALSE

\* ----------------------------------------------------------------- registry
\* this.defaultPreConditionPayload
DefaultPreConditionPayload == Str("defaultPayload")

\* an insertion that puts d in front of the elements of equal priority
InsertBeforeEqual(list, d) ==
  LET k == Cardinality({i \in 1..Len(list) : list[i].priority < d.priority})
  IN SubSeq(list, 1, k) \o <<d>> \o SubSeq(list, k + 1, Len(list))

\* a list with d inserted behind the elements whose priority is not larger
InsertByPriority(list, d) ==
  LET k == Cardinality({i \in 1..Len(list) : list[i].priority <= d.priority})
  IN SubSeq(list, 1, k) \o <<d>> \o SubSeq(list, k + 1, Len(list))

\* _.sortBy(list, function (d) { return d.priority; }): a stable sort
RECURSIVE SortByPriority(_)
SortByPriority(list) ==
  IF list = <<>> THEN <<>>
  ELSE InsertByPriority(SortByPriority(SubSeq(list, 1, Len(list) - 1)),
                        list[Len(list)])

\* list.indexOf(d) >= 0: the same reference is in the list
Registered(list, d) == \E i \in 1..Len(list) : list[i].id = d.id

\* an addBusinessRule that pushes without sorting
AddBusinessRuleToUnsorted(list, d) ==
  IF Registered(list, d) THEN list ELSE Append(list, d)

\* this.businessRules after addBusinessRule(d) with a valid d
AddBusinessRuleTo(list, d) ==
  IF Registered(list, d) THEN list ELSE SortByPriority(Append(list, d))

\* the precondition definition after addPreCondition has defaulted its payload
WithPayload(d) ==
  IF Truthy(d.payload) THEN d ELSE [d EXCEPT !.payload = DefaultPreConditionPayload]

\* an addPreCondition that pushes without sorting
AddPreConditionToUnsorted(list, d) ==
  IF Registered(list, d) THEN list ELSE Append(list, WithPayload(d))

\* this.preConditions after addPreCondition(d) with a valid d
AddPreConditionTo(list, d) ==
  IF Registered(list, d) THEN list
  ELSE SortByPriority(Append(list, WithPayload(d)))

\* the first n business rules bootstrap registers, in registration order:
\* priorities descend, two definitions to a priority
BootRules(n) == [i \in 1..n |-> [id |-> i, priority |-> (n + 1 - i) \div 2]]

\* the first n preconditions bootstrap registers, in registration order
BootPreConditions(n) ==
  [i \in 1..n |-> [id |-> i, priority |-> (n + 1 - i) \div 2, payload |-> Str("")]]

\* this.businessRules after addBusinessRule of each element of defs, in order
RECURSIVE AddBusinessRules(_)
AddBusinessRules(defs) ==
  IF defs = <<>> THEN <<>>
  ELSE AddBusinessRuleTo(AddBusinessRules(SubSeq(defs, 1, Len(defs) - 1)),
                         defs[Len(defs)])

\* this.preConditions after addPreCondition of each element of defs, in order
RECURSIVE AddPreConditions(_)
AddPreConditions(defs) ==
  IF defs = <<>> THEN <<>>
  ELSE AddPreConditionTo(AddPreConditions(SubSeq(defs, 1, Len(defs) - 1)),
                         defs[Len(defs)])

\* the registries after bootstrap has registered the definitions of cfg
Bootstrapped ==
  /\ preConditions = AddPreConditions(BootPreConditions(cfg.nPre))
  /\ businessRules = AddBusinessRules(BootRules(cfg.nRules))
  /\ added = [i \in 1..cfg.nPre |->
                [list |-> "preConditions", def |-> BootPreConditions(cfg.nPre)[i]]]
             \o [i \in 1..cfg.nRules |->
                  [list |-> "businessRules", def |-> BootRules(cfg.nRules)[i]]]

Init == cfg \in PipelineConfigs /\ Fresh /\ Bootstrapped

\* the BusinessRule definitions offered to addBusinessRule
RuleDefs == {BootRules(MaxDefs)[i] : i \in 1..MaxDefs}

\* the PreCondition definitions offered to addPreCondition, the first of
\* them with a payload of its own
PreConditionDefs ==
  {IF i = 1 THEN [BootPreConditions(MaxDefs)[i] EXCEPT !.payload = Str("own")]
   ELSE BootPreConditions(MaxDefs)[i] : i \in 1..MaxDefs}

\* what the two add functions leave unchanged
addFrame == <<cfg, fields, revision, uncommitted, gate, pc, cmd, previousModel,
              preIdx, ruleIdx, pending, eachDone, genCount, cbCount, cbErr,
              handlerRan, applies, emitted, pre, applyLog, applied, reported, handles,
              loads, loadIn, loadRes>>

\* addBusinessRule(d); Undef stands for an argument that is not an object
AddBusinessRule(d) ==
  /\ pc = "idle"
  /\ Len(added) < MaxAdds
  /\ IF d = Undef
     THEN thrown' = "invalidBusinessRule" /\ UNCHANGED <<businessRules, added>>
     ELSE /\ thrown' = "none"
          /\ businessRules' = AddBusinessRuleTo(businessRules, d)
          /\ added' = Append(added, [list |-> "businessRules", def |-> d])
  /\ UNCHANGED <<preConditions, addFrame>>

\* addPreCondition(d)
AddPreCondition(d) ==
  /\ pc = "idle"
  /\ Len(added) < MaxAdds
  /\ IF d = Undef
     THEN thrown' = "invalidPreCondition" /\ UNCHANGED <<preConditions, added>>
     ELSE /\ thrown' = "none"
          /\ preConditions' = AddPreConditionTo(preConditions, d)
          /\ added' = Append(added, [list |-> "preConditions", def |-> d])
  /\ UNCHANGED <<businessRules, addFrame>>

\* bootstrap starts from the empty registries of the constructor
InitRegistry ==
  /\ cfg \in {c \in PipelineConfigs : c.cmdVersion /\ c.nPre = 0 /\ c.nRules = 0}
  /\ Fresh
  /\ Bootstrapped

\* the registrations of bootstrap
NextRegistry ==
  \/ \E d \in RuleDefs \cup {Undef} : AddBusinessRule(d)
  \/ \E d \in PreConditionDefs \cup {Undef} : AddPreCondition(d)

SpecRegistry == InitRegistry /\ [][NextRegistry]_vars

\* ---------------------------------------------------------- AggregateModel
\* toJSON(): the copy of the field bag of a container with fields f and
\* revision r (the revision is part of it only when it lives in the bag)
ToJSON(f, r) == [fields |-> f, revision |-> IF cfg.revInBag THEN r ELSE 0]

\* reset(data): replace the field bag wholesale
Reset(data) ==
  /\ fields' = data.fields
  /\ revision' = IF cfg.revInBag THEN data.revision ELSE revision

\* addUncommittedEvent(evt)
AddUncommittedEvent(buf, evt) == Append(buf, evt)

\* -------------------------------------------------------------- definitions
\* event.apply(evt, aggregateModel) of the registered Event definitions: each
\* sets two fields of the bag from the event
EventApply(evt, f) == [count |-> f.count + 1, last |-> evt.payload]

\* a reduce that keeps the lowest registered version for a name
MinVersion(evtName) ==
  LET vs == {e.version : e \in {d \in Events : Str(d.name) = evtName}}
  IN IF vs = {} THEN 0 ELSE CHOOSE v \in vs : \A w \in vs : v <= w

\* the reduce of applyHelper: the maximum registered version for a name
MaxVersion(evtName) ==
  LET vs == {e.version : e \in {d \in Events : Str(d.name) = evtName}}
  IN IF vs = {} THEN 0 ELSE CHOOSE v \in vs : \A w \in vs : w <= v

\* no Event definition
NoEventDef == [name |-> "", version |-> 0]

\* the Event definition Aggregate.prototype.apply resolves for an event: the
\* version is read from the event when a version field is configured
ResolveEvent(evt) ==
  LET version == IF cfg.evtVersion THEN evt.version ELSE Num(0)
  IN IF GetEvent(evt.name, version) # "found" THEN NoEventDef
     ELSE CHOOSE d \in Events :
            d.name = evt.name.s /\ d.version = OrZero(version).n

\* Aggregate.prototype.apply for one event: the exception it raises ("none"
\* if none) and the field bag it leaves; g is the state of the mutation gate
ApplyOne(evt, f, g) ==
  LET version == IF cfg.evtVersion THEN evt.version ELSE Num(0)
      found == GetEvent(evt.name, version)
  IN IF ~Truthy(evt.name) THEN [thrown |-> "noEventName", fields |-> f]
     ELSE IF found = "undefined" THEN [thrown |-> "eventNotFound", fields |-> f]
     ELSE IF found # "found" THEN [thrown |-> found, fields |-> f]
     ELSE IF g = "closed" THEN [thrown |-> "usage", fields |-> f]
     ELSE [thrown |-> "none", fields |-> EventApply(evt, f)]

\* Aggregate.prototype.apply for the events lo..hi of a sequence, in order,
\* stopping at the first exception (the range is halved to keep the
\* evaluation shallow)
RECURSIVE ApplyRange(_, _, _, _, _)
ApplyRange(evts, lo, hi, f, g) ==
  IF lo > hi THEN [thrown |-> "none", fields |-> f]
  ELSE IF lo = hi THEN ApplyOne(evts[lo], f, g)
  ELSE LET mid == (lo + hi) \div 2
           r == ApplyRange(evts, lo, mid, f, g)
       IN IF r.thrown # "none" THEN r
          ELSE ApplyRange(evts, mid + 1, hi, r.fields, g)

\* Aggregate.prototype.apply for a sequence: events.forEach
ApplyAll(evts, f, g) == ApplyRange(evts, 1, Len(evts), f, g)

\* ------------------------------------------------------------------- handle
callVars == <<cmd, previousModel, preIdx, ruleIdx, eachDone, handlerRan,
              applies, pre, applyLog, applied, reported>>

\* callback(e) of handle
Callback(e) ==
  /\ pc' = "done"
  /\ cbCount' = cbCount + 1
  /\ cbErr' = e

\* an exception leaves handle (or the callback chain it runs in)
Throw(e) ==
  /\ pc' = "done"
  /\ thrown' = e

\* the commands a caller passes to handle
CmdInputs ==
  [name : {Undef, Str("cmd"), Str("other"), Num(7)},
   version : {Undef, Num(1), Str("1")}]

\* the version handle and checkPreConditions read from the command
CmdVersion(c) == IF cfg.cmdVersion THEN c.version ELSE Num(0)

\* checkAggregatePreConditions: nothing to check, or the first of eachSeries
StartPreConditions ==
  IF Len(preConditions) = 0
  THEN pc' = "cmdPre" /\ preIdx' = preIdx
  ELSE pc' = "aggPre" /\ preIdx' = 1

\* handle, up to the call of checkPreConditions
HandleCall(c) ==
  /\ pc = "idle"
  /\ handles < MaxHandles
  /\ handles' = handles + 1
  /\ cmd' = c
  /\ pre' = [fields |-> fields, revision |-> revision,
             uncommitted |-> uncommitted, gate |-> gate]
  /\ IF ~Truthy(c.name)
     THEN /\ Callback(Err("noCommandName", 0))
          /\ UNCHANGED <<gate, thrown, preIdx>>
     ELSE IF GetCommand(c.name, CmdVersion(c)) \in {"invalidName", "invalidVersion"}
     THEN /\ Throw(GetCommand(c.name, CmdVersion(c)))
          /\ UNCHANGED <<gate, cbCount, cbErr, preIdx>>
     ELSE IF GetCommand(c.name, CmdVersion(c)) = "undefined"
     THEN /\ Callback(Err("commandNotFound", 0))
          /\ UNCHANGED <<gate, thrown, preIdx>>
     ELSE /\ gate' = "closed"
          /\ StartPreConditions
          /\ UNCHANGED <<cbCount, cbErr, thrown>>
  /\ UNCHANGED <<cfg, registryVars, fields, revision, uncommitted, previousModel, ruleIdx,
                 pending, eachDone, genCount, handlerRan, applies, applyLog, applied,
                 reported, loadVars>>

\* a handle that cleans up the container when a precondition fails
PreConditionAbortClears(e) ==
  /\ Callback(e)
  /\ uncommitted' = <<>>
  /\ UNCHANGED <<fields, revision>>

\* what handle does when checkPreConditions reports an error
PreConditionAbort(e) == Callback(e) /\ UNCHANGED <<fields, revision, uncommitted>>

\* one aggregate-level preCondition.check of the eachSeries reports
AggPreCondition(ok) ==
  /\ pc = "aggPre"
  /\ IF ok
     THEN /\ IF preIdx < Len(preConditions)
             THEN pc' = "aggPre" /\ preIdx' = preIdx + 1
             ELSE pc' = "cmdPre" /\ preIdx' = preIdx
          /\ UNCHANGED <<cbCount, cbErr, reported, fields, revision, uncommitted>>
     ELSE /\ reported' = Err("precondition", preIdx)
          /\ PreConditionAbort(Err("precondition", preIdx))
          /\ preIdx' = preIdx
  /\ UNCHANGED <<cfg, registryVars, gate, cmd, previousModel, ruleIdx, pending,
                 eachDone, genCount, thrown, handlerRan, applies, pre,
                 applyLog, applied, handles, loadVars>>

\* the callback of checkAggregatePreConditions resolves the command again,
\* and command.checkPreConditions reports; on success handle copies the
\* model, attaches apply and invokes command.handle
CmdPreCondition(ok) ==
  /\ pc = "cmdPre"
  /\ IF ~Truthy(cmd.name)
     THEN /\ Throw("noCommandName")
          /\ UNCHANGED <<cbCount, cbErr, reported, previousModel, handlerRan,
                         fields, revision, uncommitted>>
     ELSE IF GetCommand(cmd.name, CmdVersion(cmd)) # "found"
     THEN /\ Throw("commandNotFound")
          /\ UNCHANGED <<cbCount, cbErr, reported, previousModel, handlerRan,
                         fields, revision, uncommitted>>
     ELSE IF ~ok
     THEN /\ reported' = Err("cmdPrecondition", 0)
          /\ PreConditionAbort(Err("cmdPrecondition", 0))
          /\ UNCHANGED <<thrown, previousModel, handlerRan>>
     ELSE /\ previousModel' = ToJSON(fields, revision)
          /\ handlerRan' = TRUE
          /\ pc' = "handling"
          /\ UNCHANGED <<cbCount, cbErr, thrown, reported, fields, revision,
                         uncommitted>>
  /\ UNCHANGED <<cfg, registryVars, gate, cmd, preIdx, ruleIdx, pending, eachDone,
                 genCount, applies, pre, applyLog, applied, handles, loadVars>>

\* ------------------------------------------------------------- applyHelper
\* what a command handler passes to apply: a name with a payload, or a
\* structured event that may carry an id and a version of its own
HandlerEvents ==
  {[name |-> Str("a"), id |-> Undef, version |-> Undef],
   [name |-> Str("a"), id |-> Str("x"), version |-> Undef],
   [name |-> Str("a"), id |-> Num(0), version |-> Undef],
   [name |-> Str("b"), id |-> Undef, version |-> Undef],
   [name |-> Str("z"), id |-> Undef, version |-> Undef]}

\* the event envelope built by apply(name, payload) or apply(evt), with the
\* revision, aggregate id and correlation id stamped
BuildEvt(e, payload, rev) ==
  [name |-> e.name, payload |-> payload, id |-> e.id, version |-> e.version,
   revision |-> rev, aggregateId |-> ModelId, correlationId |-> CmdId]

\* the version stamped when the event carries none
InferVersion(evt) ==
  IF cfg.evtVersion /\ evt.version = Undef
  THEN [evt EXCEPT !.version = Num(MaxVersion(evt.name))]
  ELSE evt

\* an apply that stamps the current revision without incrementing it
NextRevisionStale(r) == r

\* the revision apply gives the model and the event
NextRevision(r) == r + 1

\* aggregateModel.apply(...) called by the command handler; an exception of
\* aggregate.apply leaves the closure before its last statement and, through
\* command.handle, leaves handle
Apply(e) ==
  /\ pc = "handling"
  /\ emitted < MaxApplies
  /\ emitted' = emitted + 1
  /\ applies' = applies + 1
  /\ LET evt == InferVersion(BuildEvt(e, applies + 1, NextRevision(revision)))
         r == ApplyOne(evt, fields, "open")
     IN /\ revision' = NextRevision(revision)
        /\ uncommitted' = AddUncommittedEvent(uncommitted, evt)
        /\ applyLog' = Append(applyLog, evt)
        /\ applied' = Append(applied, [arg |-> e, def |-> ResolveEvent(evt)])
        /\ fields' = r.fields
        /\ IF r.thrown = "none"
           THEN gate' = "closed" /\ UNCHANGED <<pc, thrown>>
           ELSE gate' = "open" /\ Throw(r.thrown)
  /\ UNCHANGED <<cfg, registryVars, cmd, previousModel, preIdx, ruleIdx, pending, eachDone,
                 genCount, cbCount, cbErr, handlerRan, pre, reported, handles,
                 loads, loadIn, loadRes>>

\* the function returned by applyHelper called through a reference that the
\* command handler kept, after command.handle has returned and handle has
\* deleted aggregateModel.apply; an exception goes to that caller, not to handle
LateApply(e) ==
  /\ handlerRan
  /\ pc \in {"idgen", "rules", "done"}
  /\ emitted < MaxApplies
  /\ emitted' = emitted + 1
  /\ LET evt == InferVersion(BuildEvt(e, emitted + 1, NextRevision(revision)))
         r == ApplyOne(evt, fields, "open")
     IN /\ revision' = NextRevision(revision)
        /\ uncommitted' = AddUncommittedEvent(uncommitted, evt)
        /\ fields' = r.fields
        /\ gate' = IF r.thrown = "none" THEN "closed" ELSE "open"
  /\ UNCHANGED <<cfg, registryVars, pc, cmd, previousModel, preIdx, ruleIdx, pending,
                 eachDone, genCount, cbCount, cbErr, thrown, handlerRan,
                 applies, pre, applyLog, applied, reported, handles, loads, loadIn,
                 loadRes>>

\* ------------------------------------------------- handle: ids, rules, end
\* !!dotty.get(evt, definitions.event.id)
IsEvtIdDefined(evt) == Truthy(evt.id)

\* an id assignment that collects the events in completion order
PutIdMoved(buf, i, id) ==
  Append(SubSeq(buf, 1, i - 1) \o SubSeq(buf, i + 1, Len(buf)),
         [buf[i] EXCEPT !.id = id])

\* dotty.put(evt, definitions.event.id, id) on the i-th uncommitted event
PutId(buf, i, id) == [buf EXCEPT ![i].id = id]

\* a commit that clears the uncommitted-event buffer
CommitClears(buf) ==
  /\ Callback(NoErr)
  /\ uncommitted' = <<>>
  /\ UNCHANGED <<fields, revision>>

\* what handle does when checkBusinessRules reports no error; buf is the
\* uncommitted-event buffer at that point
Commit(buf) ==
  /\ Callback(NoErr)
  /\ uncommitted' = buf
  /\ UNCHANGED <<fields, revision>>

\* checkBusinessRules: nothing to check, or the first rule of eachSeries
StartBusinessRules(buf) ==
  IF Len(businessRules) = 0
  THEN Commit(buf) /\ ruleIdx' = ruleIdx
  ELSE /\ pc' = "rules"
       /\ ruleIdx' = 1
       /\ uncommitted' = buf
       /\ UNCHANGED <<cbCount, cbErr, fields, revision>>

\* command.handle returns: apply is removed and async.each starts one id
\* generation for every uncommitted event that has no id
HandlerReturn ==
  /\ pc = "handling"
  /\ pending' = {i \in 1..Len(uncommitted) : ~IsEvtIdDefined(uncommitted[i])}
  /\ IF pending' = {}
     THEN eachDone' = TRUE /\ StartBusinessRules(uncommitted)
     ELSE /\ eachDone' = FALSE
          /\ pc' = "idgen"
          /\ UNCHANGED <<ruleIdx, cbCount, cbErr, fields, revision, uncommitted>>
  /\ UNCHANGED <<cfg, registryVars, gate, cmd, previousModel, preIdx, genCount, thrown,
                 handlerRan, applies, pre, applyLog, applied, reported, handles,
                 loadVars>>

\* getNewId calls back with an id for the i-th uncommitted event
IdGenerated(i) ==
  /\ pc \in {"idgen", "done"}
  /\ i \in pending
  /\ pending' = pending \ {i}
  /\ genCount' = genCount + 1
  /\ IF ~eachDone /\ pending' = {}
     THEN /\ eachDone' = TRUE
          /\ StartBusinessRules(PutId(uncommitted, i, GenId(genCount + 1)))
     ELSE /\ uncommitted' = PutId(uncommitted, i, GenId(genCount + 1))
          /\ UNCHANGED <<eachDone, pc, ruleIdx, cbCount, cbErr, fields, revision>>
  /\ UNCHANGED <<cfg, registryVars, gate, cmd, previousModel, preIdx,
                 thrown, handlerRan, applies, pre, applyLog, applied, reported,
                 handles, loadVars>>

\* what handle does when async.each reports an id generation error
IdGenAbort(e) == Callback(e) /\ UNCHANGED <<fields, revision, uncommitted>>

\* an id generation failure that reaches handle's callback every time, also
\* after async.each has already called its final callback
IdGenFailedEvery(i) ==
  /\ pc \in {"idgen", "done"}
  /\ i \in pending
  /\ pending' = pending \ {i}
  /\ eachDone' = TRUE
  /\ reported' = Err("idgen", i)
  /\ IdGenAbort(Err("idgen", i))
  /\ UNCHANGED <<cfg, registryVars, gate, cmd, previousModel, preIdx, ruleIdx,
                 genCount, thrown, handlerRan, applies, pre, applyLog, applied,
                 handles, loadVars>>

\* getNewId calls back with an error for the i-th uncommitted event
IdGenFailed(i) ==
  /\ pc \in {"idgen", "done"}
  /\ i \in pending
  /\ pending' = pending \ {i}
  /\ IF ~eachDone
     THEN /\ eachDone' = TRUE
          /\ reported' = Err("idgen", i)
          /\ IdGenAbort(Err("idgen", i))
     ELSE UNCHANGED <<eachDone, reported, pc, cbCount, cbErr, fields,
                      revision, uncommitted>>
  /\ UNCHANGED <<cfg, registryVars, gate, cmd, previousModel, preIdx, ruleIdx, genCount,
                 thrown, handlerRan, applies, pre, applyLog, applied, handles,
                 loadVars>>

\* a clean up that restores the fields but keeps the events
RollBackKeepsEvents ==
  /\ Reset(previousModel)
  /\ UNCHANGED uncommitted

\* a clean up that removes only the events appended since handle was called
RollBackOwnEvents ==
  /\ Reset(previousModel)
  /\ uncommitted' = SubSeq(uncommitted, 1, Len(pre.uncommitted))

\* the clean up of handle after a failed business rule
RollBack ==
  /\ Reset(previousModel)
  /\ uncommitted' = <<>>

\* one rule.check of the eachSeries reports
BusinessRule(ok) ==
  /\ pc = "rules"
  /\ IF ok
     THEN /\ IF ruleIdx < Len(businessRules)
             THEN /\ pc' = "rules"
                  /\ ruleIdx' = ruleIdx + 1
                  /\ UNCHANGED <<cbCount, cbErr, fields, revision, uncommitted>>
             ELSE Commit(uncommitted) /\ ruleIdx' = ruleIdx
          /\ UNCHANGED reported
     ELSE /\ reported' = Err("rule", ruleIdx)
          /\ RollBack
          /\ Callback(Err("rule", ruleIdx))
          /\ ruleIdx' = ruleIdx
  /\ UNCHANGED <<cfg, registryVars, gate, cmd, previousModel, preIdx, pending, eachDone,
                 genCount, thrown, handlerRan, applies, pre, applyLog, applied,
                 handles, loadVars>>

\* the caller has received the outcome and every outstanding id generation
\* has called back; the container is ready for the next operation
Return ==
  /\ pc \in {"done", "loaded"}
  /\ pending = {}
  /\ pc' = "idle"
  /\ cmd' = NoCmd
  /\ previousModel' = NoPrevious
  /\ preIdx' = 0
  /\ ruleIdx' = 0
  /\ eachDone' = FALSE
  /\ cbCount' = 0
  /\ cbErr' = NoErr
  /\ thrown' = "none"
  /\ handlerRan' = FALSE
  /\ applies' = 0
  /\ pre' = NoPre
  /\ applyLog' = <<>>
  /\ applied' = <<>>
  /\ reported' = NoErr
  /\ loadIn' = NoLoad
  /\ loadRes' = FALSE
  /\ UNCHANGED <<cfg, registryVars, modelVars, pending, genCount, handles, loads, emitted>>

\* ---------------------------------------------------------- loadFromHistory
\* the count threshold of isSnapshotNeeded when options.snapshotThreshold is unset
DefaultSnapshotThreshold == 100

\* a policy that falls back to the count threshold when the loading time is
\* below the configured millisecond threshold
IsSnapshotNeededFallback(loadingTime, events) ==
  LET snapshotThreshold == IF cfg.snapshotThreshold # 0
                           THEN cfg.snapshotThreshold
                           ELSE DefaultSnapshotThreshold
  IN IF cfg.snapshotThresholdMs # 0 /\ loadingTime >= cfg.snapshotThresholdMs
     THEN TRUE
     ELSE Len(events) >= snapshotThreshold

\* Aggregate.prototype.isSnapshotNeeded, the default policy
IsSnapshotNeeded(loadingTime, events) ==
  LET snapshotThreshold == IF cfg.snapshotThreshold # 0
                           THEN cfg.snapshotThreshold
                           ELSE DefaultSnapshotThreshold
  IN IF cfg.snapshotThresholdMs # 0
     THEN loadingTime >= cfg.snapshotThresholdMs
     ELSE Len(events) >= snapshotThreshold

\* the largest revision carried by the events lo..hi (lo <= hi) of a batch
\* (the range is halved to keep the evaluation shallow)
RECURSIVE MaxRevisionRange(_, _, _)
MaxRevisionRange(events, lo, hi) ==
  IF lo = hi THEN events[lo].revision
  ELSE LET mid == (lo + hi) \div 2
           a == MaxRevisionRange(events, lo, mid)
           b == MaxRevisionRange(events, mid + 1, hi)
       IN IF b > a THEN b ELSE a

\* a maxRevision that takes the revision of the last event of the batch
MaxRevisionOfLast(events) ==
  IF events = <<>> THEN 0 ELSE events[Len(events)].revision

\* maxRevision of loadFromHistory: the reduce over the batch, starting from 0
MaxRevision(events) ==
  IF events = <<>> THEN 0
  ELSE LET m == MaxRevisionRange(events, 1, Len(events))
       IN IF m > 0 THEN m ELSE 0

\* the conversion function registered for the old snapshot version
Convert(data) == [count |-> data.count, last |-> 0]

\* an event as the event store hands it back
StoredEvt(name, rev) ==
  [name |-> Str(name), payload |-> 0, id |-> Str("stored"), version |-> Num(0),
   revision |-> rev, aggregateId |-> ModelId, correlationId |-> CmdId]

\* n events that follow revision 2
Batch(n) == [i \in 1..n |-> StoredEvt("a", 2 + i)]

\* the batch sizes the event store hands to loadFromHistory
BatchSizes == {0, 1, 2, 99, 100, 150}

\* the events batches passed to loadFromHistory
Batches ==
  {Batch(n) : n \in BatchSizes}
    \cup {<<StoredEvt("z", 3)>>, <<StoredEvt("a", 4), StoredEvt("a", 3)>>}

NoSnapshot == [given |-> FALSE, version |-> 0, revision |-> 0, data |-> InitFields]

\* the snapshots passed to loadFromHistory: none, one of the current version,
\* one of a version with a conversion, one of a version without
Snapshots ==
  {NoSnapshot}
    \cup {[given |-> TRUE, version |-> v, revision |-> 2,
           data |-> [count |-> 2, last |-> 2]] : v \in {0, 1, 2}}

\* the loading times passed to loadFromHistory
LoadingTimes == {0, 5}

\* a snapshot load that does not flag a converted snapshot as stale
LoadSnapshotNoFlag(snapshot) ==
  IF ~snapshot.given
  THEN [thrown |-> "none", fields |-> fields, revision |-> revision, needed |-> FALSE]
  ELSE IF snapshot.version = AggregateVersion
  THEN IF gate = "closed"
       THEN [thrown |-> "usage", fields |-> fields, revision |-> revision, needed |-> FALSE]
       ELSE [thrown |-> "none", fields |-> snapshot.data,
             revision |-> snapshot.revision, needed |-> FALSE]
  ELSE IF snapshot.version \notin SnapshotConversions
  THEN [thrown |-> "noConversion", fields |-> fields, revision |-> revision, needed |-> FALSE]
  ELSE IF gate = "closed"
  THEN [thrown |-> "usage", fields |-> fields, revision |-> revision, needed |-> FALSE]
  ELSE [thrown |-> "none", fields |-> Convert(snapshot.data),
        revision |-> snapshot.revision, needed |-> FALSE]

\* the snapshot part of loadFromHistory: the exception raised ("none" if
\* none), the field bag and revision it leaves, and isSnapshotNeeded so far
LoadSnapshot(snapshot) ==
  IF ~snapshot.given
  THEN [thrown |-> "none", fields |-> fields, revision |-> revision, needed |-> FALSE]
  ELSE IF snapshot.version = AggregateVersion
  THEN IF gate = "closed"
       THEN [thrown |-> "usage", fields |-> fields, revision |-> revision, needed |-> FALSE]
       ELSE [thrown |-> "none", fields |-> snapshot.data,
             revision |-> snapshot.revision, needed |-> FALSE]
  ELSE IF snapshot.version \notin SnapshotConversions
  THEN [thrown |-> "noConversion", fields |-> fields, revision |-> revision, needed |-> FALSE]
  ELSE IF gate = "closed"
  THEN [thrown |-> "usage", fields |-> fields, revision |-> revision, needed |-> FALSE]
  ELSE [thrown |-> "none", fields |-> Convert(snapshot.data),
        revision |-> snapshot.revision, needed |-> TRUE]

\* a load that increments the revision once per replayed event
LoadOutcomeCounting(snapshot, events, loadingTime) ==
  LET s == LoadSnapshot(snapshot)
      r == ApplyAll(events, s.fields, gate)
  IN IF s.thrown # "none" THEN [s EXCEPT !.needed = FALSE]
     ELSE IF Len(events) = 0 THEN s
     ELSE IF r.thrown # "none"
     THEN [thrown |-> r.thrown, fields |-> r.fields, revision |-> s.revision,
           needed |-> FALSE]
     ELSE [thrown |-> "none", fields |-> r.fields,
           revision |-> s.revision + Len(events),
           needed |-> IF ~s.needed THEN IsSnapshotNeeded(loadingTime, events)
                      ELSE s.needed]

\* loadFromHistory as a whole: as LoadSnapshot, with the value returned
LoadOutcome(snapshot, events, loadingTime) ==
  LET s == LoadSnapshot(snapshot)
      r == ApplyAll(events, s.fields, gate)
  IN IF s.thrown # "none" THEN [s EXCEPT !.needed = FALSE]
     ELSE IF Len(events) = 0 THEN s
     ELSE IF r.thrown # "none"
     THEN [thrown |-> r.thrown, fields |-> r.fields, revision |-> s.revision,
           needed |-> FALSE]
     ELSE [thrown |-> "none", fields |-> r.fields,
           revision |-> MaxRevision(events),
           needed |-> IF ~s.needed THEN IsSnapshotNeeded(loadingTime, events)
                      ELSE s.needed]

\* a call of loadFromHistory on the container
LoadFromHistory(snapshot, events, loadingTime) ==
  /\ pc = "idle"
  /\ loads < MaxLoads
  /\ loads' = loads + 1
  /\ loadIn' = [snapshot |-> snapshot, events |-> events, loadingTime |-> loadingTime]
  /\ LET o == LoadOutcome(snapshot, events, loadingTime)
     IN /\ fields' = o.fields
        /\ revision' = o.revision
        /\ thrown' = o.thrown
        /\ loadRes' = o.needed
  /\ pc' = "loaded"
  /\ UNCHANGED <<cfg, registryVars, uncommitted, gate, cmd, previousModel, preIdx, ruleIdx,
                 pending, eachDone, genCount, cbCount, cbErr, handlerRan,
                 applies, emitted, pre, applyLog, applied, reported, handles>>

\* the steps of the command pipeline
Next ==
  \/ \E c \in CmdInputs : HandleCall(c)
  \/ \E ok \in BOOLEAN : AggPreCondition(ok)
  \/ \E ok \in BOOLEAN : CmdPreCondition(ok)
  \/ \E e \in HandlerEvents : Apply(e)
  \/ HandlerReturn
  \/ \E i \in pending : IdGenerated(i)
  \/ \E i \in pending : IdGenFailed(i)
  \/ \E ok \in BOOLEAN : BusinessRule(ok)
  \/ Return

\* the first event of HandlerEvents as the container holds it after a handle
\* that committed it: stamped by apply and given an id by the id generator
CommittedEvt ==
  PutId(<<InferVersion(BuildEvt([name |-> Str("a"), id |-> Undef, version |-> Undef],
                                1, NextRevision(0)))>>, 1, GenId(1))[1]

\* the container after one handle that applied and committed one event, and
\* no operation in progress: the mutation gate is closed
Handled ==
  /\ fields = EventApply(CommittedEvt, InitFields)
  /\ revision = NextRevision(0)
  /\ uncommitted = <<CommittedEvt>>
  /\ gate = "closed"
  /\ pc = "idle"
  /\ cmd = NoCmd
  /\ previousModel = NoPrevious
  /\ preIdx = 0
  /\ ruleIdx = 0
  /\ pending = {}
  /\ eachDone = FALSE
  /\ genCount = 1
  /\ cbCount = 0
  /\ cbErr = NoErr
  /\ thrown = "none"
  /\ handlerRan = FALSE
  /\ applies = 0
  /\ emitted = 1
  /\ pre = NoPre
  /\ applyLog = <<>>
  /\ applied = <<>>
  /\ reported = NoErr
  /\ handles = 1
  /\ loads = 0
  /\ loadIn = NoLoad
  /\ loadRes = FALSE

\* loadFromHistory is called on a fresh container or on one that has handled
\* a command
InitLoad == cfg \in SnapshotConfigs /\ (Fresh \/ Handled) /\ Bootstrapped

\* calls of loadFromHistory on the container
NextLoad ==
  \/ \E snapshot \in Snapshots, events \in Batches, loadingTime \in LoadingTimes :
       LoadFromHistory(snapshot, events, loadingTime)
  \/ Return

\* the configurations of a container that is both loaded and commanded: the
\* largest pipeline configuration, with the revision inside or outside the bag
HistoryConfigs ==
  {c \in PipelineConfigs : c.cmdVersion /\ c.nPre = MaxPre /\ c.nRules = MaxRules}

InitHistory == cfg \in HistoryConfigs /\ Fresh /\ Bootstrapped

\* the commands issued between loads: one that resolves and one without name
HistoryCmds ==
  {c \in CmdInputs : c.version = Undef /\ c.name \in {Str("cmd"), Undef}}

\* the events a handler applies between loads: a registered one and an
\* unregistered one, without id
HistoryEvents == {e \in HandlerEvents : e.id = Undef /\ e.name \in {Str("a"), Str("z")}}

\* the batches loaded between commands: none, two events that follow
\* revision 2, the same out of order, and one event older than revision 2
HistoryBatches ==
  {<<>>, Batch(2), <<StoredEvt("a", 4), StoredEvt("a", 3)>>, <<StoredEvt("a", 1)>>}

\* the snapshots loaded between commands: none or one of the current version
HistorySnapshots == {s \in Snapshots : ~s.given \/ s.version = AggregateVersion}

\* loadFromHistory and handle calls on one container, in any order
NextHistory ==
  \/ \E c \in HistoryCmds : HandleCall(c)
  \/ \E ok \in BOOLEAN : AggPreCondition(ok)
  \/ \E ok \in BOOLEAN : CmdPreCondition(ok)
  \/ \E e \in HistoryEvents : Apply(e)
  \/ HandlerReturn
  \/ \E i \in pending : IdGenerated(i)
  \/ \E i \in pending : IdGenFailed(i)
  \/ \E ok \in BOOLEAN : BusinessRule(ok)
  \/ \E snapshot \in HistorySnapshots, events \in HistoryBatches :
       LoadFromHistory(snapshot, events, 0)
  \/ Return

\* the command pipeline with a command handler that keeps the function it
\* finds at aggregateModel.apply and may call it at any later time
NextLate ==
  \/ \E c \in HistoryCmds : HandleCall(c)
  \/ \E ok \in BOOLEAN : AggPreCondition(ok)
  \/ \E ok \in BOOLEAN : CmdPreCondition(ok)
  \/ \E e \in HistoryEvents : Apply(e)
  \/ HandlerReturn
  \/ \E i \in pending : IdGenerated(i)
  \/ \E i \in pending : IdGenFailed(i)
  \/ \E ok \in BOOLEAN : BusinessRule(ok)
  \/ \E e \in HistoryEvents : LateApply(e)
  \/ Return

Spec == Init /\ [][Next]_vars

SpecLate == InitHistory /\ [][NextLate]_vars

SpecHistory == InitHistory /\ [][NextHistory]_vars

SpecLoad == InitLoad /\ [][NextLoad]_vars

\* ------------------------------------------------------------------ claims
\* number of uncommitted events the container held when handle was called
PreLen == Len(pre.uncommitted)

\* an event without its id
StripId(evt) == [evt EXCEPT !.id = Undef]

\* C1: when a business rule reports a failure, at the moment the callback is
\* invoked the field bag equals the bag the container had before handle was
\* called, the uncommitted-event list is empty, and the callback has received
\* that rule's error (once).
RollbackAtomicity ==
  (pc = "done" /\ reported.kind = "rule") =>
    /\ ToJSON(fields, revision) = ToJSON(pre.fields, pre.revision)
    /\ uncommitted = <<>>
    /\ cbCount = 1
    /\ cbErr = reported

\* a business rule failed after the handler applied two events
RollbackAfterTwoApplies ==
  /\ pc = "done"
  /\ reported.kind = "rule"
  /\ applies = 2
  /\ cbErr.kind = "rule"

\* C2 (as claimed): when an id generation fails, handle restores the fields,
\* clears the uncommitted-event buffer and passes the generation error to the
\* callback.
IdFailureRollsBack ==
  (pc = "done" /\ reported.kind = "idgen") =>
    /\ ToJSON(fields, revision) = ToJSON(pre.fields, pre.revision)
    /\ uncommitted = <<>>
    /\ cbErr = reported

\* C3: within one handle call the k-th apply sets the revision to the
\* pre-handle revision + k and stamps that value on the event it appends, so
\* the events of the call carry consecutive revisions from pre-handle
\* revision + 1 (until a rule failure rolls the call back).
RevisionMonotonicity ==
  (handlerRan /\ reported.kind # "rule") =>
    /\ revision = pre.revision + applies
    /\ Len(uncommitted) = PreLen + applies
    /\ \A k \in 1..applies : uncommitted[PreLen + k].revision = pre.revision + k

\* a handler applied two events and the call committed
TwoAppliesCommitted ==
  /\ pc = "done"
  /\ applies = 2
  /\ cbCount = 1
  /\ cbErr = NoErr
  /\ revision = pre.revision + 2

\* C4: when an aggregate-level or command-level precondition fails, the
\* handler is never invoked, the fields, revision and uncommitted events are
\* as they were before the call, and the callback receives the precondition's
\* error (once).
PreConditionFailureLeavesModel ==
  (pc = "done" /\ reported.kind \in {"precondition", "cmdPrecondition"}) =>
    /\ ~handlerRan
    /\ applies = 0
    /\ fields = pre.fields
    /\ revision = pre.revision
    /\ uncommitted = pre.uncommitted
    /\ cbCount = 1
    /\ cbErr = reported

\* a precondition failed on a container that holds uncommitted events
PreConditionFailedWithEvents ==
  /\ pc = "done"
  /\ reported.kind = "precondition"
  /\ cbErr.kind = "precondition"
  /\ pre.uncommitted # <<>>

\* handle has gone past the point where it closes the mutation gate
GateClosedByHandle ==
  \/ pc \in {"aggPre", "cmdPre", "handling", "idgen", "rules"}
  \/ pc = "done" /\ (handlerRan \/ reported.kind \in {"precondition", "cmdPrecondition"})

\* C5 (as claimed): once handle has closed the gate, a set on the container
\* fails at every point outside the command-handler invocation.
GateClosedOutsideHandler ==
  (GateClosedByHandle /\ pc # "handling") => gate = "closed"

\* C6 (as claimed): after a successful handle every event of the call has an
\* id, an event emitted with an explicit id keeps exactly that id, and only
\* events emitted without one carry a generated id.
IdBackFill ==
  (pc = "done" /\ cbCount = 1 /\ cbErr = NoErr) =>
    \A k \in 1..applies :
      /\ uncommitted[PreLen + k].id # Undef
      /\ applyLog[k].id # Undef => uncommitted[PreLen + k].id = applyLog[k].id
      /\ applyLog[k].id = Undef => uncommitted[PreLen + k].id.s = "generated"

\* C7: at every point of a handle call and after it (until a rule failure
\* clears the buffer) the buffer holds the events the container had before,
\* followed by the events of this call in the order apply was called,
\* whatever the order in which the id generations complete.
EventOrder ==
  (pc \in {"handling", "idgen", "rules", "done"} /\ reported.kind # "rule") =>
    /\ Len(uncommitted) = PreLen + Len(applyLog)
    /\ \A j \in 1..PreLen : StripId(uncommitted[j]) = StripId(pre.uncommitted[j])
    /\ \A k \in 1..Len(applyLog) : StripId(uncommitted[PreLen + k]) = StripId(applyLog[k])

\* the id generation of the second event completed before that of the first
IdsCompletedOutOfOrder ==
  /\ pc = "done"
  /\ cbErr = NoErr
  /\ applies = 2
  /\ uncommitted[PreLen + 1].id = GenId(genCount)
  /\ uncommitted[PreLen + 2].id = GenId(genCount - 1)

\* C8: when the preconditions pass, the id generations succeed and every
\* business rule passes, the callback is invoked with no error, the container
\* keeps the field values produced by the applies, the revision they reached
\* and all events of the call in its buffer; from an empty container at
\* revision 0 and one applied event without id the result is revision 1 and
\* one uncommitted event with revision 1 and a generated id.
CommitKeepsResult ==
  /\ (pc = "done" /\ handlerRan /\ thrown = "none" /\ reported = NoErr) =>
       (cbCount = 1 /\ cbErr = NoErr)
  /\ (pc = "done" /\ handlerRan /\ cbCount = 1 /\ cbErr = NoErr) =>
       /\ fields = ApplyAll(applyLog, pre.fields, "open").fields
       /\ revision = pre.revision + applies
       /\ Len(uncommitted) = PreLen + applies
       /\ \A k \in 1..applies : StripId(uncommitted[PreLen + k]) = StripId(applyLog[k])
       /\ (pre.revision = 0 /\ PreLen = 0 /\ applies = 1 /\ applyLog[1].id = Undef) =>
            /\ revision = 1
            /\ Len(uncommitted) = 1
            /\ uncommitted[1].revision = 1
            /\ uncommitted[1].id.s = "generated"

\* the scenario of C8: a committed handle of one event on an empty container
OneEventCommitted ==
  /\ pc = "done"
  /\ cbCount = 1
  /\ cbErr = NoErr
  /\ pre.revision = 0
  /\ PreLen = 0
  /\ applies = 1
  /\ applyLog[1].id = Undef
  /\ fields # pre.fields

\* no Command definition matches the (name, version) of the command in hand
NoCommandMatches ==
  ~\E d \in Commands :
     cmd.name = Str(d.name) /\ OrZero(CmdVersion(cmd)) = Num(d.version)

\* C9 (as claimed): for a command without a name or without a matching
\* Command definition, handle raises no exception, reports the error through
\* the callback, runs no precondition, handler or rule and leaves the fields,
\* revision and uncommitted events unchanged.
ResolutionErrorsReported ==
  (pc = "done" /\ (~Truthy(cmd.name) \/ NoCommandMatches)) =>
    /\ thrown = "none"
    /\ cbCount = 1
    /\ cbErr.kind \in {"noCommandName", "commandNotFound"}
    /\ ~handlerRan
    /\ reported = NoErr
    /\ fields = pre.fields
    /\ revision = pre.revision
    /\ uncommitted = pre.uncommitted

\* C10: loadFromHistory returns true exactly when a snapshot of another
\* version with a registered conversion is given, or the batch is not empty
\* and the snapshot policy returns true for it; a snapshot of the current
\* version with no events gives false, 150 events under the default options
\* give true, and a snapshot of another version without a conversion makes it
\* fail with the configuration error.
LoadReturnsSnapshotNeed ==
  pc = "loaded" =>
    LET snap == loadIn.snapshot
        stale == snap.given /\ snap.version # AggregateVersion
    IN /\ thrown = "none" =>
            /\ loadRes = (\/ stale /\ snap.version \in SnapshotConversions
                          \/ /\ loadIn.events # <<>>
                             /\ IsSnapshotNeeded(loadIn.loadingTime, loadIn.events))
            /\ (snap.given /\ ~stale /\ loadIn.events = <<>>) => loadRes = FALSE
            /\ (/\ Len(loadIn.events) = 150
                /\ cfg.snapshotThreshold = 0
                /\ cfg.snapshotThresholdMs = 0) => loadRes = TRUE
       /\ (stale /\ snap.version \notin SnapshotConversions) =>
            thrown = "noConversion"

\* a converted snapshot was loaded with a batch the policy does not flag
ConvertedSnapshotLoaded ==
  /\ pc = "loaded"
  /\ thrown = "none"
  /\ loadIn.snapshot.given
  /\ loadIn.snapshot.version # AggregateVersion
  /\ loadIn.events # <<>>
  /\ ~IsSnapshotNeeded(loadIn.loadingTime, loadIn.events)
  /\ loadRes = TRUE

\* loadFromHistory returned what isSnapshotNeeded returned: it did not throw,
\* the batch was not empty and no converted snapshot had set the flag
PolicyDecided ==
  /\ pc = "loaded"
  /\ thrown = "none"
  /\ loadIn.events # <<>>
  /\ ~(loadIn.snapshot.given /\ loadIn.snapshot.version # AggregateVersion)

\* the count threshold in force
CountThreshold ==
  IF cfg.snapshotThreshold # 0 THEN cfg.snapshotThreshold ELSE 100

\* C11 (as claimed): isSnapshotNeeded returns true if a millisecond threshold
\* is configured and the loading time reaches it; otherwise, also when the
\* millisecond threshold is configured and the loading time is below it, it
\* returns true exactly when the number of loaded events reaches the count
\* threshold.
SnapshotPolicyFallsBack ==
  PolicyDecided =>
    loadRes = (\/ /\ cfg.snapshotThresholdMs # 0
                  /\ loadIn.loadingTime >= cfg.snapshotThresholdMs
               \/ Len(loadIn.events) >= CountThreshold)

\* C11 (amended): when a millisecond threshold is configured isSnapshotNeeded
\* returns true exactly when the loading time reaches it, whatever the number
\* of events; when none is configured it returns true exactly when the
\* number of loaded events reaches the count threshold (100 by default,
\* snapshotThreshold when configured).
SnapshotPolicy ==
  PolicyDecided =>
    /\ cfg.snapshotThresholdMs # 0 =>
         loadRes = (loadIn.loadingTime >= cfg.snapshotThresholdMs)
    /\ cfg.snapshotThresholdMs = 0 =>
         loadRes = (Len(loadIn.events) >= CountThreshold)

\* a long batch was loaded quickly under a configured millisecond threshold
LongBatchLoadedQuickly ==
  /\ PolicyDecided
  /\ cfg.snapshotThresholdMs # 0
  /\ loadIn.loadingTime < cfg.snapshotThresholdMs
  /\ Len(loadIn.events) >= CountThreshold
  /\ loadRes = FALSE

\* the largest revision carried by the batch is at least r
BatchReaches(events, r) == \E i \in 1..Len(events) : events[i].revision >= r

\* C12 (as claimed): every loadFromHistory call and every handle call leaves
\* the revision of the container greater than or equal to what it was before
\* the call, and a load that is given a snapshot never ends below the
\* revision set from that snapshot.
RevisionNeverDecreases ==
  [][/\ (pc = "idle" /\ pc' = "loaded") =>
          /\ revision' >= revision
          /\ (loadIn'.snapshot.given /\ thrown' = "none") =>
               revision' >= loadIn'.snapshot.revision
     /\ pc' = "done" => revision' >= pre'.revision]_vars

\* C12 (amended): every handle call, committed or failed, leaves the revision
\* greater than or equal to what it was before the call. loadFromHistory
\* assigns the revision: it leaves it greater than or equal to what it was
\* before when the snapshot's revision (if a snapshot is given) is not below
\* it and the batch (if not empty) carries a revision that is not below it,
\* and it ends at or above the revision set from the snapshot when the batch
\* is empty or carries a revision that is not below the snapshot's.
RevisionNeverDecreasesInOrder ==
  [][/\ (pc = "idle" /\ pc' = "loaded") =>
          LET snap == loadIn'.snapshot
              events == loadIn'.events
          IN /\ (/\ snap.given => snap.revision >= revision
                 /\ events # <<>> => BatchReaches(events, revision))
                  => revision' >= revision
             /\ (/\ snap.given
                 /\ thrown' = "none"
                 /\ events # <<>> => BatchReaches(events, snap.revision))
                  => revision' >= snap.revision
     /\ pc' = "done" => revision' >= pre'.revision]_vars

\* a container was loaded from a snapshot of revision 2 and two later events,
\* and a command then applied and committed one more event
HandledAfterLoad ==
  /\ pc = "done"
  /\ cbCount = 1
  /\ cbErr = NoErr
  /\ loads = 1
  /\ applies = 1
  /\ pre.revision = 4
  /\ revision = 5

\* C13 (as claimed): once command.handle has returned, no event is appended
\* to the uncommitted buffer and the revision is not incremented, during id
\* generation, during the business-rule checks and after the callback, also
\* when the handler kept a reference to the apply capability.
ApplyRevoked ==
  [][(handlerRan /\ pc \in {"idgen", "rules", "done"}) =>
       /\ Len(uncommitted') <= Len(uncommitted)
       /\ revision' <= revision]_vars

\* the definitions passed to the add function of a list, in call order
AddedTo(list) == SelectSeq(added, LAMBDA a : a.list = list)

\* the position of the first call that passed the definition with this id
FirstAdded(list, id) ==
  CHOOSE i \in 1..Len(AddedTo(list)) :
    /\ AddedTo(list)[i].def.id = id
    /\ \A j \in 1..(i - 1) : AddedTo(list)[j].def.id # id

\* a registry list holds every definition passed to its add function exactly
\* once, by ascending priority, equal priorities in the order of their first
\* registration
RegistryOrdered(L, list) ==
  /\ {L[i].id : i \in 1..Len(L)} = {AddedTo(list)[i].def.id : i \in 1..Len(AddedTo(list))}
  /\ \A i, j \in 1..Len(L) : i # j => L[i].id # L[j].id
  /\ \A i, j \in 1..Len(L) :
       i < j => /\ L[i].priority <= L[j].priority
                /\ L[i].priority = L[j].priority =>
                     FirstAdded(list, L[i].id) < FirstAdded(list, L[j].id)

\* C19: after any sequence of addBusinessRule and addPreCondition calls each
\* list contains every registered definition exactly once (adding the same
\* reference again changes nothing) and is ordered by ascending priority,
\* definitions of equal priority in registration order.
RegistryInvariant ==
  /\ RegistryOrdered(businessRules, "businessRules")
  /\ RegistryOrdered(preConditions, "preConditions")

\* two business rules of equal priority were registered, the first of them
\* twice, and then one of lower priority
RulesRegisteredWithTie ==
  /\ Len(AddedTo("businessRules")) = 4
  /\ AddedTo("businessRules")[1] = AddedTo("businessRules")[3]
  /\ Len(businessRules) = 3
  /\ businessRules[2].priority = businessRules[3].priority
  /\ businessRules[1].priority < businessRules[2].priority
  /\ businessRules[1].id = AddedTo("businessRules")[4].def.id

\* the k-th element of a registry list is not before one of lower priority
\* and not behind one of higher priority
InPriorityOrder(L, k) ==
  /\ k \in 1..Len(L)
  /\ \A j \in 1..(k - 1) : L[j].priority <= L[k].priority
  /\ \A j \in (k + 1)..Len(L) : L[k].priority <= L[j].priority

\* C14: the aggregate-level preconditions are checked one at a time in
\* ascending priority order, each only while no earlier one has reported an
\* error; the first error is passed to the callback and no later precondition
\* is started; the command's own checkPreConditions is invoked only after
\* every aggregate-level precondition has passed.
PreConditionOrder ==
  /\ pc = "aggPre" =>
       /\ InPriorityOrder(preConditions, preIdx)
       /\ reported = NoErr
       /\ cbCount = 0
       /\ ~handlerRan
  /\ (pc = "done" /\ reported.kind = "precondition") =>
       /\ preIdx = reported.idx
       /\ cbCount = 1
       /\ cbErr = reported
       /\ ~handlerRan
  /\ (pc = "cmdPre" \/ reported.kind = "cmdPrecondition" \/ handlerRan) =>
       /\ preIdx = Len(preConditions)
       /\ reported.kind # "precondition"

\* the second precondition is being checked: it was registered first, with
\* the higher priority value
SecondPreConditionChecked ==
  /\ pc = "aggPre"
  /\ preIdx = 2
  /\ preConditions[1].priority < preConditions[2].priority
  /\ preConditions[2].id = 1

\* C15: the business rules are started only after the handler has returned
\* and every uncommitted event has an id, never after an id generation
\* failed; they are checked one at a time in ascending priority order against
\* the changed container, the previous-model copy with the pre-handle field
\* values, the events of the call and the command; no rule is started after
\* the first failing one.
BusinessRuleOrder ==
  /\ pc = "rules" =>
       /\ handlerRan
       /\ thrown = "none"
       /\ pending = {}
       /\ reported = NoErr
       /\ cbCount = 0
       /\ \A i \in 1..Len(uncommitted) : Truthy(uncommitted[i].id)
       /\ InPriorityOrder(businessRules, ruleIdx)
       /\ fields = ApplyAll(applyLog, pre.fields, "open").fields
       /\ previousModel.fields = pre.fields
       /\ Len(uncommitted) = PreLen + applies
       /\ \A k \in 1..applies : StripId(uncommitted[PreLen + k]) = StripId(applyLog[k])
       /\ GetCommand(cmd.name, CmdVersion(cmd)) = "found"
  /\ reported.kind = "idgen" => ruleIdx = 0
  /\ (pc = "done" /\ reported.kind = "rule") =>
       /\ ruleIdx = reported.idx
       /\ cbCount = 1
       /\ cbErr = reported

\* the second rule is being checked after two events were applied and given
\* generated ids: it was registered first, with the higher priority value
SecondRuleChecked ==
  /\ pc = "rules"
  /\ ruleIdx = 2
  /\ businessRules[1].priority < businessRules[2].priority
  /\ businessRules[2].id = 1
  /\ applies = 2
  /\ genCount >= 2
  /\ fields # pre.fields

\* C16: when loadFromHistory returns from a non-empty batch the revision of
\* the container is the largest revision carried by an event of the batch,
\* whatever the revision was before and however many events were replayed;
\* when it returns from a snapshot and an empty batch the revision is the
\* snapshot's stored revision.
LoadAssignsRevision ==
  (pc = "loaded" /\ thrown = "none") =>
    LET events == loadIn.events
    IN /\ events # <<>> =>
            /\ \E i \in 1..Len(events) : events[i].revision = revision
            /\ \A i \in 1..Len(events) : events[i].revision <= revision
       /\ (loadIn.snapshot.given /\ events = <<>>) =>
            revision = loadIn.snapshot.revision

\* two events were loaded out of order on top of a snapshot, into a container
\* that an earlier load had taken to a higher revision
OutOfOrderBatchLoaded ==
  /\ pc = "loaded"
  /\ thrown = "none"
  /\ loads = 2
  /\ loadIn.snapshot.given
  /\ Len(loadIn.events) = 2
  /\ loadIn.events[1].revision > loadIn.events[2].revision
  /\ revision = loadIn.events[1].revision

\* C17 (as claimed): a call of apply that fails because no Event definition
\* matches the event's name and version leaves the revision and the
\* uncommitted-event buffer as they were before the call.
ApplyAllOrNothing ==
  [][(pc = "handling" /\ thrown' = "eventNotFound") =>
       /\ revision' = revision
       /\ uncommitted' = uncommitted]_vars

\* the versions of the Event definitions registered for a name
RegisteredVersions(evtName) == {d.version : d \in {e \in Events : Str(e.name) = evtName}}

\* C18: when an event version field is configured and the handler emits an
\* event without a version, apply stamps the largest version registered for
\* the event's name, 0 if none is registered, and the event is applied
\* through the Event definition with that name and version (with none
\* registered there is no such definition and the apply fails).
VersionInference ==
  (handlerRan /\ cfg.evtVersion) =>
    \A k \in 1..applies :
      LET evt == applyLog[k]
          vs == RegisteredVersions(evt.name)
      IN applied[k].arg.version = Undef =>
           /\ evt.version.t = "number"
           /\ \A v \in vs : v <= evt.version.n
           /\ vs # {} =>
                /\ evt.version.n \in vs
                /\ applied[k].def = [name |-> evt.name.s, version |-> evt.version.n]
                /\ applied[k].def \in Events
           /\ vs = {} =>
                /\ evt.version.n = 0
                /\ applied[k].def = NoEventDef
                /\ thrown = "eventNotFound"

\* an event of a name registered in two versions and an event of an
\* unregistered name were emitted without a version
LatestVersionStamped ==
  /\ cfg.evtVersion
  /\ applies = 2
  /\ applied[1].arg.version = Undef
  /\ Cardinality(RegisteredVersions(applyLog[1].name)) = 2
  /\ applyLog[1].version = Num(1)
  /\ applied[1].def.version = 1
  /\ RegisteredVersions(applyLog[2].name) = {}
  /\ applyLog[2].version = Num(0)

\* C20 (as claimed): after a handle call that emitted at least one event and
\* was rolled back on a business-rule failure the revision of the container
\* equals its pre-handle value, so that the next event is numbered pre-handle
\* revision + 1.
NoRevisionGap ==
  (pc = "done" /\ reported.kind = "rule" /\ applies >= 1) =>
    /\ revision = pre.revision
    /\ NextRevision(revision) = pre.revision + 1

\* command.handle has returned without an exception in the call in progress
HandlerReturned == handlerRan /\ thrown = "none" /\ pc # "handling"

\* C21: in a handle call whose command handler returned normally the
\* callback is never invoked twice, whatever the order and outcome of the id
\* generations (several failing included) and of the rule checks; as long as
\* it has not been invoked the call waits for an id generation or a rule
\* check that is still to call back, and once none is left to change the
\* outcome it has been invoked exactly once.
ExactlyOnceCompletion ==
  /\ cbCount <= 1
  /\ HandlerReturned =>
       /\ cbCount = 0 =>
            \/ pc = "idgen" /\ pending # {} /\ ~eachDone
            \/ pc = "rules" /\ ruleIdx \in 1..Len(businessRules)
       /\ pc = "done" => cbCount = 1
       /\ cbCount = 1 => pc = "done"

\* two id generations of one call have failed, the second after the callback
\* had received the error of the first
TwoGenerationsFailed ==
  /\ HandlerReturned
  /\ pc = "done"
  /\ reported.kind = "idgen"
  /\ applies = 2
  /\ pending = {}
  /\ ~Truthy(uncommitted[PreLen + 1].id)
  /\ ~Truthy(uncommitted[PreLen + 2].id)
  /\ cbCount = 1

\* handle was called on a container that held the events of an earlier
\* successful handle, each with its id
EarlierEventsHeld ==
  /\ pre.uncommitted # <<>>
  /\ \A i \in 1..PreLen : Truthy(pre.uncommitted[i].id)

\* C22 (as claimed): a business-rule failure of a handle call on a container
\* that still holds the uncommitted events of an earlier successful handle
\* removes only the events of the failed call; the earlier events remain in
\* the buffer.
RollbackKeepsEarlierEvents ==
  (pc = "done" /\ reported.kind = "rule" /\ EarlierEventsHeld) =>
    uncommitted = pre.uncommitted

\* C22 (amended): a business-rule failure of a handle call on a container
\* that still holds the uncommitted events of an earlier successful handle
\* empties the buffer, the earlier events included, while the fields go back
\* to their values before the failed call, which keep what the earlier
\* events did.
RollbackClearsWholeBuffer ==
  (pc = "done" /\ reported.kind = "rule" /\ EarlierEventsHeld) =>
    /\ uncommitted = <<>>
    /\ fields = pre.fields

\* the second handle call on the container emitted an event and was rolled
\* back while the event of the first, committed call was still in the buffer
SecondCallRolledBack ==
  /\ pc = "done"
  /\ reported.kind = "rule"
  /\ EarlierEventsHeld
  /\ handles = 2
  /\ applies = 1
  /\ pre.fields # InitFields
  /\ fields = pre.fields

====
